---- MODULE Spec2Model ----
(***************************************************************************)
(* State-machine model of the rabbit SDK orchestration loop:               *)
(*   RabbitAgent.run_task / _execute_action   (rabbit_sdk/agent.py)        *)
(*   Planner                                  (rabbit_sdk/planner.py)      *)
(*   LLMManager.generate_text and friends     (rabbit_sdk/llm_manager.py)  *)
(*   BrowserController.open_page              (rabbit_sdk/browser_controller.py) *)
(*   MemoryManager.save / get                 (rabbit_sdk/memory_manager.py) *)
(*   sanitize_input, extract_text_from_page   (rabbit_sdk/utils.py)        *)
(*                                                                         *)
(* Conventions.                                                            *)
(*  - A Python str that the code inspects character by character (task,    *)
(*    url, store key, oracle reply) is a sequence of one-character strings.*)
(*    A JSON member inside an oracle reply is one opaque token longer than *)
(*    one character ("type:click", "selector", ...).                       *)
(*  - Page text and cached content, which the code only measures, slices   *)
(*    and stores, is a record [kind |-> "str", len, json]: its length and  *)
(*    what json.loads makes of it.                                         *)
(*  - Python None is the record None, so that every value is a record.     *)
(*  - One action of the model is one awaited call of run_task together     *)
(*    with the synchronous code that follows it, cut at the states of the  *)
(*    per-resource state machine (cache check, fetch, step loop, save).    *)
(*  - call[p] holds the locals of the run_task invocation of caller p;     *)
(*    io[p] is instrumentation only (counts of collaborator calls).        *)
(***************************************************************************)
EXTENDS Integers, Sequences, FiniteSets, TLC

----------------------------------------------------------------------------
(* Bounds of the exploration *)

\* longest urls list passed to run_task
MaxUrls == 2
\* largest max_steps passed to run_task
MaxSteps == 2
\* total budget of (resource, step) slots over all run_task calls explored
MaxWork == 2
\* number of save / get / get_all calls made directly on one store
MaxStoreOps == 3
\* seconds the database clock may advance
MaxClock == 1

(* Program constants *)

\* BrowserController.max_retries
max_retries == 3
\* display length used by Save in run_task
DisplayLimit == 1000
\* length of the "..." suffix appended by Save
EllipsisLen == 3
\* cached results longer than this are cut in the reuse prompt
ReusePromptLimit == 500

----------------------------------------------------------------------------
(* Python values *)

None == [kind |-> "none"]

\* a str of length n; json names what json.loads makes of it, NotJson when it
\* raises JSONDecodeError
NotJson == "no"
Str(n, j) == [kind |-> "str", len |-> n, json |-> j]

\* a non-str value produced by json.loads; sized values (list, dict) have a len
Parsed(shape, n) == [kind |-> "parsed", shape |-> shape, len |-> n]

\* bool(v) as used by `if cached_result and ...` and `if action_result.get('data')`
Truthy(v) ==
    CASE v.kind = "none" -> FALSE
      [] v.kind = "str" -> v.len > 0
      [] v.kind = "parsed" -> IF v.shape \in {"list", "dict"} THEN v.len > 0
                              ELSE v.shape \notin {"zero", "false"}
      [] OTHER -> TRUE

----------------------------------------------------------------------------
(* Character-level strings *)

Range(s) == {s[i] : i \in 1..Len(s)}

Lower(c) ==
    CASE c = "Y" -> "y"
      [] c = "E" -> "e"
      [] c = "S" -> "s"
      [] c = "A" -> "a"
      [] c = "N" -> "n"
      [] c = "O" -> "o"
      [] OTHER -> c

\* str.lower()
LowerStr(s) == [i \in 1..Len(s) |-> Lower(s[i])]

\* `sub in s`
Contains(s, sub) ==
    \E i \in 1..(Len(s) - Len(sub) + 1) : SubSeq(s, i, i + Len(sub) - 1) = sub

\* str.find(c) and str.rfind(c), 1-based; 0 when absent
Find(s, c) == IF c \in Range(s) THEN CHOOSE i \in 1..Len(s) : s[i] = c /\ \A j \in 1..(i-1) : s[j] # c ELSE 0
RFind(s, c) == IF c \in Range(s) THEN CHOOSE i \in 1..Len(s) : s[i] = c /\ \A j \in (i+1)..Len(s) : s[j] # c ELSE 0

RECURSIVE LStrip(_)
LStrip(s) == IF s # <<>> /\ Head(s) = " " THEN LStrip(Tail(s)) ELSE s

RECURSIVE RStrip(_)
RStrip(s) == IF s # <<>> /\ s[Len(s)] = " " THEN RStrip(SubSeq(s, 1, Len(s) - 1)) ELSE s

\* str.strip()
Strip(s) == RStrip(LStrip(s))

IsSanitizedChar(c) == c \notin {";", "&", "|"}

\* utils.sanitize_input: drops every ';', '&' and '|'
sanitize_input(text) == SelectSeq(text, IsSanitizedChar)

----------------------------------------------------------------------------
(* The oracle (LLMManager) *)

\* f"Error generating text: {str(e)}" without the error text
ErrorPrefix == <<"E", "r", "r", "o", "r", " ", "g", "e", "n", "e", "r", "a", "t", "i", "n", "g", " ", "t", "e", "x", "t", ":", " ">>

\* the reply of generate_text when no model is configured
NotAvailableText == <<"L", "L", "M", " ", "f", "u", "n", "c", "t", "i", "o", "n", "a", "l", "i", "t", "y", " ", "n", "o", "t", " ", "a", "v", "a", "i", "l", "a", "b", "l", "e", " ", "(", "A", "P", "I", " ", "k", "e", "y", " ", "n", "o", "t", " ", "c", "o", "n", "f", "i", "g", "u", "r", "e", "d", ")">>

\* what one generate_content call does: it returns `text`, or raises an
\* exception whose str() is `text`
Reply(t) == [raised |-> FALSE, text |-> t]
Raise(t) == [raised |-> TRUE, text |-> t]

\* LLMManager.generate_text: never raises, an exception becomes reply text
generate_text(gm, ob) ==
    IF ~gm THEN NotAvailableText
    ELSE IF ob.raised THEN ErrorPrefix \o ob.text
    ELSE ob.text

----------------------------------------------------------------------------
(* JSON objects inside oracle replies *)

TypeTokens == {"type:click", "type:fill_form", "type:navigate", "type:extract",
               "type:no_action", "type:scroll"}

MemberTokens == TypeTokens \cup {"selector", "url", "form_data", "submit_selector",
                                 "reason", "steps", "code"}

\* json.loads on the slice: the slice is one object when it opens with '{',
\* closes with '}' and holds only members in between
JsonObjectOK(js) ==
    /\ Len(js) >= 2
    /\ js[1] = "{"
    /\ js[Len(js)] = "}"
    /\ \A i \in 2..(Len(js) - 1) : js[i] \in MemberTokens

\* the planner's extraction: response[response.find('{') : response.rfind('}') + 1]
JsonSlice(response) == SubSeq(response, Find(response, "{"), RFind(response, "}"))

HasBraces(response) == "{" \in Range(response) /\ "}" \in Range(response)

NoType == "<absent>"

TypeName(tok) ==
    CASE tok = "type:click" -> "click"
      [] tok = "type:fill_form" -> "fill_form"
      [] tok = "type:navigate" -> "navigate"
      [] tok = "type:extract" -> "extract"
      [] tok = "type:no_action" -> "no_action"
      [] OTHER -> "scroll"

\* a duplicated key keeps its last value
TypeOfObject(js) ==
    LET idx == {i \in 1..Len(js) : js[i] \in TypeTokens}
    IN IF idx = {} THEN NoType
       ELSE TypeName(js[CHOOSE i \in idx : \A j \in idx : j <= i])

\* the action dictionary that json.loads returns for an object
ActionOfObject(js) ==
    [kind |-> "action",
     type |-> TypeOfObject(js),
     selector |-> "selector" \in Range(js),
     url |-> "url" \in Range(js),
     form_data |-> "form_data" \in Range(js),
     submit_selector |-> "submit_selector" \in Range(js),
     reason |-> IF "reason" \in Range(js) THEN "oracle" ELSE ""]

NoAction(why) ==
    [kind |-> "action", type |-> "no_action", selector |-> FALSE, url |-> FALSE,
     form_data |-> FALSE, submit_selector |-> FALSE, reason |-> why]

----------------------------------------------------------------------------
(* Planner *)

\* the slicing of cached_result in should_reuse_result raises TypeError for a
\* value without len(), and for a list or dict longer than the limit
ReuseSliceRaises(cached_result) ==
    /\ cached_result.kind = "parsed"
    /\ \/ cached_result.shape \notin {"list", "dict"}
       \/ cached_result.len > ReusePromptLimit

\* "yes" in response.lower().strip()
SaysYes(response) == Contains(Strip(LowerStr(response)), <<"y", "e", "s">>)

\* (variant: reuse by default when no model is configured)
should_reuse_result_default_true(gm, cached_result, ob) ==
    IF ~gm THEN [value |-> TRUE, requests |-> 0]
    ELSE IF ReuseSliceRaises(cached_result) THEN [value |-> FALSE, requests |-> 0]
    ELSE [value |-> SaysYes(generate_text(gm, ob)), requests |-> 1]

\* Planner.should_reuse_result: the decision, and the oracle requests made
should_reuse_result(gm, cached_result, ob) ==
    IF ~gm THEN [value |-> FALSE, requests |-> 0]
    ELSE IF ReuseSliceRaises(cached_result) THEN [value |-> FALSE, requests |-> 0]
    ELSE [value |-> SaysYes(generate_text(gm, ob)), requests |-> 1]

\* the JSON extraction of plan_next_action
ParseAction(response) ==
    IF HasBraces(response)
    THEN IF JsonObjectOK(JsonSlice(response))
         THEN ActionOfObject(JsonSlice(response))
         ELSE NoAction("Could not parse action plan")
    ELSE NoAction("Could not determine appropriate action")

\* Planner.plan_next_action: the action, and the oracle requests made
plan_next_action(gm, ob) ==
    IF ~gm THEN [value |-> NoAction("LLM not available"), requests |-> 0]
    ELSE [value |-> ParseAction(generate_text(gm, ob)), requests |-> 1]

\* the fallback plan: one visit step per url, each with a single extract action
FallbackPlan(task, urls) ==
    [kind |-> "plan", task |-> task, strategy |-> "sequential",
     steps |-> [i \in 1..Len(urls) |->
                  [type |-> "visit", url |-> urls[i],
                   actions |-> <<[type |-> "extract", what |-> "content"]>>]]]

\* the plan object that json.loads returns
OraclePlan(js) ==
    [kind |-> "plan", task |-> <<>>, strategy |-> "oracle",
     steps |-> IF "steps" \in Range(js) THEN <<"oracle">> ELSE <<>>]

\* Planner.create_initial_plan: the plan, and the oracle requests made
create_initial_plan(gm, task, urls, ob) ==
    IF ~gm THEN [value |-> FallbackPlan(task, urls), requests |-> 0]
    ELSE LET response == generate_text(gm, ob)
         IN [value |-> IF HasBraces(response) /\ JsonObjectOK(JsonSlice(response))
                       THEN OraclePlan(JsonSlice(response))
                       ELSE FallbackPlan(task, urls),
             requests |-> 1]

----------------------------------------------------------------------------
(* MemoryManager: the durable table `memory` and the in-process mirror.     *)
(* Both map <<session_id, key>> to a value; an absent key is outside DOMAIN. *)


\* json.dumps of a non-str value, and json.loads of stored text (the sizes
\* relate a sized value to the length of its text)
JsonDumps(v) == Str(3 * v.len + 1, v.shape)
JsonLoads(t) ==
    CASE t.json = "null" -> None
      [] t.json = "string" -> Str(t.len - 2, NotJson)
      [] OTHER -> Parsed(t.json, t.len \div 3)

\* (variant: INSERT OR IGNORE, an existing row is kept)
UpsertKeepsFirst(f, k, v) ==
    [x \in (DOMAIN f) \cup {k} |-> IF x \in DOMAIN f THEN f[x] ELSE v]

\* INSERT ... ON CONFLICT(session_id, key) DO UPDATE, and dict[key] = value
Upsert(f, k, v) == [x \in (DOMAIN f) \cup {k} |-> IF x = k THEN v ELSE f[x]]

\* MemoryManager.save: the text written, then the table and the mirror after
\* the call; a failing write is caught and changes neither
SavedText(value) == IF value.kind = "str" THEN value ELSE JsonDumps(value)

SaveDb(d, session_id, key, value, write_ok) ==
    IF write_ok THEN Upsert(d, <<session_id, key>>, SavedText(value)) ELSE d

SaveCache(c, session_id, key, value, write_ok) ==
    IF write_ok THEN Upsert(c, <<session_id, key>>, SavedText(value)) ELSE c

\* the timestamp column: a written row gets CURRENT_TIMESTAMP
SaveStamp(st, session_id, key, write_ok, now) ==
    IF write_ok THEN Upsert(st, <<session_id, key>>, now) ELSE st

\* MemoryManager.get: the value returned, and the mirror after the call
GetValue(d, c, session_id, key, read_ok) ==
    IF <<session_id, key>> \in DOMAIN c THEN c[<<session_id, key>>]
    ELSE IF ~read_ok THEN None
    ELSE IF <<session_id, key>> \in DOMAIN d
         THEN IF d[<<session_id, key>>].json # NotJson
              THEN JsonLoads(d[<<session_id, key>>])
              ELSE d[<<session_id, key>>]
         ELSE None

\* (variant: the value read from the table is not kept in the mirror)
GetCacheNeverFills(d, c, session_id, key, read_ok) == c

GetCache(d, c, session_id, key, read_ok) ==
    IF <<session_id, key>> \notin DOMAIN c /\ read_ok /\ <<session_id, key>> \in DOMAIN d
    THEN Upsert(c, <<session_id, key>>, GetValue(d, c, session_id, key, read_ok))
    ELSE c

\* whether MemoryManager.get executes its SELECT: only on a mirror miss
GetReadsDb(c, session_id, key) == <<session_id, key>> \notin DOMAIN c

\* the keys of the rows of a session
SessionKeys(d, session_id) == {k[2] : k \in {x \in DOMAIN d : x[1] = session_id}}

\* the orders in which `SELECT ... WHERE session_id = ? ORDER BY timestamp DESC`
\* may return the rows of a session: latest timestamp first, rows with equal
\* timestamps in any order
RowOrders(d, st, session_id) ==
    LET keys == SessionKeys(d, session_id)
    IN {r \in [1..Cardinality(keys) -> keys] :
          /\ \A i, j \in DOMAIN r : i # j => r[i] # r[j]
          /\ \A i, j \in DOMAIN r :
                i < j => st[<<session_id, r[i]>>] >= st[<<session_id, r[j]>>]}

\* MemoryManager.get_all_for_session: the dict built from the rows in the
\* order they are returned, as the sequence of its items
get_all_for_session(d, session_id, rows) ==
    [i \in DOMAIN rows |->
       [key |-> rows[i],
        value |-> IF d[<<session_id, rows[i]>>].json # NotJson
                  THEN JsonLoads(d[<<session_id, rows[i]>>])
                  ELSE d[<<session_id, rows[i]>>]]]

\* f"task:{task}:{url}" and f"summary:{url}"
TaskKey(task, url) == <<"t", "a", "s", "k", ":">> \o task \o <<":">> \o url
SummaryKey(url) == <<"s", "u", "m", "m", "a", "r", "y", ":">> \o url

----------------------------------------------------------------------------
(* RabbitAgent._execute_action *)

\* what the page does during one dispatch: whether its first capability call
\* raises, str(e) of what it raises, and how many elements a query finds
PageDoes(raises, text, elements) == [raises |-> raises, text |-> text, elements |-> elements]

\* str(texts) of a list of n element texts
StrOfList(n) == Str(5 * n, NotJson)

Outcome(status, data, calls) ==
    [status |-> status, data |-> data, calls |-> calls, message |-> None]

\* {"status": "error", "message": str(e)}
Failure(message, calls) ==
    [status |-> "error", data |-> None, calls |-> calls, message |-> message]

\* str(e) of the AttributeError of action.get on a value that is no dict
NotADictText == <<"n", "o", " ", "g", "e", "t">>

\* (variant: an exception of a page call leaves the dispatcher)
ActionExceptionPropagates(pd, o) ==
    IF pd.raises /\ o.calls > 0 THEN [o EXCEPT !.status = "raised"] ELSE o

\* the try/except around the dispatch: o is the Outcome when no page call
\* raises; the first page call is the one that raises
ActionCaught(pd, o) ==
    IF pd.raises /\ o.calls > 0 THEN Failure(pd.text, 1) ELSE o

\* (variant: a tag that is not known counts as no_action)
UnrecognizedSucceeds(action_type) == Outcome("success", None, 0)

\* the fall-through return: {"status": "unknown_action", ...}
Unrecognized(action_type) == Outcome("unknown_action", None, 0)

\* the Outcome returned, with the number of page capability calls made
execute_action(action, pd) ==
    IF action.kind # "action" THEN Failure(NotADictText, 0)
    ELSE
    LET t == IF action.type = NoType THEN "no_action" ELSE action.type
    IN CASE t = "click" ->
              IF action.selector
              THEN ActionCaught(pd, Outcome("success", None, 1))
              ELSE Unrecognized(t)
         [] t = "fill_form" ->
              LET n == (IF action.form_data THEN 1 ELSE 0)
                       + (IF action.submit_selector THEN 1 ELSE 0)
              IN ActionCaught(pd, Outcome("success", None, n))
         [] t = "navigate" ->
              IF action.url
              THEN ActionCaught(pd, Outcome("success", None, 1))
              ELSE Unrecognized(t)
         [] t = "extract" ->
              IF action.selector
              THEN ActionCaught(pd, Outcome("success", Parsed("list", pd.elements), 1 + pd.elements))
              ELSE Unrecognized(t)
         [] t = "no_action" -> Outcome("success", None, 0)
         [] OTHER -> Unrecognized(t)

----------------------------------------------------------------------------
(* Inputs and collaborator behaviours explored *)

Procs == {1, 2}
\* callers whose run_task calls never overlap
SeqProcs == {1}

Tasks == {<<"x">>, <<"A", "n", "a", "l", "y", "z", "e">>}
Sessions == {"s1"}
Urls == {<<"a">>, <<"b">>}

\* url names are interchangeable: lists are explored up to renaming, first url "a"
UrlLists == {l \in UNION {[1..n -> Urls] : n \in 0..MaxUrls} : l = <<>> \/ l[1] = <<"a">>}

\* the urls argument: a list, or a single str where a list is expected
UrlArgs == {[islist |-> TRUE, items |-> l] : l \in UrlLists}
           \cup {[islist |-> FALSE, items |-> <<>>]}

StepArgs == (-1)..MaxSteps

\* texts document.body.innerText may hold: empty, or longer than the display length
PageTexts == {Str(0, NotJson), Str(DisplayLimit + 1, NotJson)}

\* str(e) of exceptions raised by the model call
ErrorTexts == {<<"4", "2", "9">>, <<"s", "a", "y", " ", "y", "e", "s">>, <<"4", "0", "0", " ", "{", "code", "}">>}

ReuseOracle == {Reply(<<"y", "e", "s">>), Reply(<<"N", "o">>)}
               \cup {Raise(t) : t \in ErrorTexts}

ActionOracle == {Reply(<<"{", "type:click", "selector", "}">>),
                 Reply(<<"{", "type:extract", "selector", "}">>),
                 Reply(<<"{", "type:navigate", "}">>),
                 Reply(<<"{", "type:no_action", "reason", "}">>),
                 Reply(<<"o", "k">>)}
                \cup {Raise(t) : t \in ErrorTexts}

PlanOracle == {Reply(<<"{", "steps", "}">>), Reply(<<"{", "steps">>)}
              \cup {Raise(t) : t \in ErrorTexts}

PageBehaviours == {PageDoes(r, <<"4", "2", "9">>, n) : r \in BOOLEAN, n \in 0..1}

GotoOutcomes == {"ok", "bad_response", "raise"}

----------------------------------------------------------------------------
(* State *)

VARIABLES
    gemini_model,         \* LLMManager.gemini_model is set (an API key was configured)
    browser_initialized,  \* RabbitAgent.browser_initialized
    browser,              \* BrowserController.browser / .context are set
    session_context,      \* RabbitAgent.session_context: session id -> context or None
    db,                   \* table memory: <<session_id, key>> -> text
    in_memory_cache,      \* MemoryManager.in_memory_cache, same keys
    call,                 \* caller -> locals of its run_task invocation
    io,                   \* caller -> counts of collaborator calls (instrumentation)
    work,                 \* budget of (resource, step) slots spent so far
    stamp,                \* table memory: <<session_id, key>> -> timestamp of the row
    clock,                \* CURRENT_TIMESTAMP of the database, in seconds
    probe                 \* locals of a direct call of one operation (planner,
                          \* dispatcher, store), None when there is none

vars == <<gemini_model, browser_initialized, browser, session_context, db,
          in_memory_cache, call, io, work, stamp, clock, probe>>

IdleCall ==
    [pc |-> "idle", task |-> <<>>, session_id |-> "", urls |-> <<>>, urls_is_list |-> TRUE,
     max_steps |-> 0,
     initial_plan |-> None, result_data |-> <<>>, idx |-> 0, cached_result |-> None,
     retry_count |-> 0, current_data |-> None, steps_executed |-> 0,
     next_action |-> None, analysis |-> None, result |-> None]

\* counters of one resource, cleared when its processing starts
ZeroResourceIo ==
    [new_page |-> 0, goto |-> 0, loaded |-> FALSE, content |-> 0, extract |-> 0,
     plan |-> 0, dispatch |-> 0, page_calls |-> 0, oracle |-> 0, db_writes |-> 0,
     reuse |-> "not asked", reused |-> FALSE, last_status |-> ""]

ZeroIo == [init |-> 0, res |-> ZeroResourceIo]

Init ==
    /\ gemini_model \in BOOLEAN
    /\ browser_initialized = FALSE
    /\ browser = FALSE
    /\ session_context = [s \in Sessions |-> None]
    /\ db = <<>>
    /\ in_memory_cache = <<>>
    /\ call = [p \in Procs |-> IdleCall]
    /\ io = [p \in Procs |-> ZeroIo]
    /\ work = 0
    /\ stamp = <<>>
    /\ clock = 0
    /\ probe = None

----------------------------------------------------------------------------
(* RabbitAgent.run_task *)

Max(a, b) == IF a >= b THEN a ELSE b

\* slots a call may use: one per resource and step, at least one per call
Cost(urls, max_steps) == Max(1, Len(urls)) * Max(1, max_steps)

ErrorResult(message) == [status |-> "error", message |-> message]

\* (variant: the exception leaves run_task)
CaughtPropagates(c, message) == [c EXCEPT !.pc = "raised"]

\* the except clause of run_task: the exception becomes the returned result
Caught(c, message) == [c EXCEPT !.pc = "done", !.result = ErrorResult(message)]

NewContext(task) ==
    [kind |-> "context", task |-> task, visited_urls |-> <<>>,
     extracted_data |-> <<>>, actions_performed |-> <<>>]

\* the head of `for url in urls`: the next resource, or the code after the loop
NextResource(c) ==
    IF c.idx < Len(c.urls)
    THEN [c EXCEPT !.pc = "cache_check", !.idx = c.idx + 1, !.cached_result = None,
                   !.retry_count = 0, !.current_data = None, !.steps_executed = 0,
                   !.next_action = None]
    ELSE [c EXCEPT !.pc = "analysis", !.cached_result = None, !.retry_count = 0,
                   !.current_data = None, !.steps_executed = 0, !.next_action = None]

\* (variant: any urls argument is accepted)
IsListAnything(urls) == TRUE

\* isinstance(urls, list)
IsList(urls) == urls.islist

\* lines 65-82 up to the first awaited call
RunTask(p) ==
    /\ call[p].pc \in {"idle", "done"}
    /\ \E task \in Tasks, session_id \in Sessions, urls \in UrlArgs, max_steps \in StepArgs :
         LET c == [IdleCall EXCEPT !.task = sanitize_input(task), !.session_id = session_id,
                                   !.urls = urls.items, !.urls_is_list = urls.islist,
                                   !.max_steps = max_steps]
         IN /\ work + Cost(urls.items, max_steps) <= MaxWork
            /\ work' = work + Cost(urls.items, max_steps)
            /\ io' = [io EXCEPT ![p] = ZeroIo]
            /\ IF ~IsList(urls)
               THEN /\ call' = [call EXCEPT ![p] = Caught(c, "URLs must be a list.")]
                    /\ UNCHANGED session_context
               ELSE IF ~browser_initialized
               THEN /\ call' = [call EXCEPT ![p] = [c EXCEPT !.pc = "init_browser"]]
                    /\ UNCHANGED session_context
               ELSE /\ call' = [call EXCEPT ![p] = [c EXCEPT !.pc = "initial_plan"]]
                    /\ session_context' = [session_context EXCEPT ![session_id] = NewContext(c.task)]
    /\ UNCHANGED <<gemini_model, browser_initialized, browser, db, in_memory_cache,
                   stamp, clock, probe>>

\* await self.browser_controller.initialize_browser(), then lines 74-82
InitializeBrowser(p) ==
    /\ call[p].pc = "init_browser"
    /\ io' = [io EXCEPT ![p].init = @ + 1]
    /\ \E ok \in BOOLEAN :
         IF ok
         THEN /\ browser' = TRUE
              /\ browser_initialized' = TRUE
              /\ session_context' = [session_context EXCEPT
                                       ![call[p].session_id] = NewContext(call[p].task)]
              /\ call' = [call EXCEPT ![p].pc = "initial_plan"]
         ELSE /\ call' = [call EXCEPT ![p] = Caught(call[p], "browser")]
              /\ UNCHANGED <<browser, browser_initialized, session_context>>
    /\ UNCHANGED <<gemini_model, db, in_memory_cache, work, stamp, clock, probe>>

\* await self.planner.create_initial_plan(task, urls), then lines 88-89
CreateInitialPlan(p) ==
    /\ call[p].pc = "initial_plan"
    /\ \E ob \in PlanOracle :
         LET r == create_initial_plan(gemini_model, call[p].task, call[p].urls, ob)
         IN /\ call' = [call EXCEPT ![p] =
                          NextResource([call[p] EXCEPT !.initial_plan = r.value,
                                                       !.result_data = <<>>, !.idx = 0])]
            /\ io' = [io EXCEPT ![p].res.oracle = @ + r.requests]
    /\ UNCHANGED <<gemini_model, browser_initialized, browser, session_context, db,
                   in_memory_cache, work, stamp, clock, probe>>

\* (variant: the newest entry comes first)
CollectFirst(result_data, entry) == <<entry>> \o result_data

\* result_data.append(entry)
Collect(result_data, entry) == Append(result_data, entry)

\* (variant: the entry is labelled as fetched)
CacheEntryAsBrowser(url, cached_result) ==
    [url |-> url, data |-> cached_result, source |-> "browser", actions |-> None]

\* the result entry of a resource served from the store (lines 96-100)
CacheEntry(url, cached_result) ==
    [url |-> url, data |-> cached_result, source |-> "cache", actions |-> None]

\* how the reuse exchange of the current resource went (instrumentation)
ReuseExchange(cached_result, ob) ==
    IF ~Truthy(cached_result) THEN "not asked"
    ELSE IF ~gemini_model THEN "unavailable"
    ELSE IF ReuseSliceRaises(cached_result) THEN "slice raised"
    ELSE IF ob.raised THEN "failed"
    ELSE "answered"

\* CacheCheck, lines 90-101: memory_manager.get, then
\* `if cached_result and await self.planner.should_reuse_result(...)`
CacheCheck(p) ==
    /\ call[p].pc = "cache_check"
    /\ \E read_ok \in BOOLEAN, ob \in ReuseOracle :
         LET c == call[p]
             url == c.urls[c.idx]
             cached == GetValue(db, in_memory_cache, c.session_id, TaskKey(c.task, url), read_ok)
             r == IF Truthy(cached) THEN should_reuse_result(gemini_model, cached, ob)
                  ELSE [value |-> FALSE, requests |-> 0]
         IN /\ in_memory_cache' = GetCache(db, in_memory_cache, c.session_id,
                                           TaskKey(c.task, url), read_ok)
            /\ io' = [io EXCEPT ![p].res = [ZeroResourceIo EXCEPT
                                              !.oracle = r.requests,
                                              !.reuse = ReuseExchange(cached, ob),
                                              !.reused = r.value]]
            /\ IF r.value
               THEN call' = [call EXCEPT ![p] =
                               NextResource([c EXCEPT !.initial_plan = None,
                                                      !.result_data = Collect(@, CacheEntry(url, cached))])]
               ELSE call' = [call EXCEPT ![p] = [c EXCEPT !.pc = "open_page",
                                                          !.initial_plan = None,
                                                          !.cached_result = cached]]
    /\ UNCHANGED <<gemini_model, browser_initialized, browser, session_context, db, work,
                   stamp, clock, probe>>

\* BrowserController.open_page, lines 132-147: the page is created
OpenPage(p) ==
    /\ call[p].pc = "open_page"
    /\ \E init_ok \in BOOLEAN, page_ok \in BOOLEAN :
         /\ browser' = (browser \/ init_ok)
         /\ io' = [io EXCEPT ![p].init = @ + (IF browser THEN 0 ELSE 1),
                             ![p].res.new_page = @ + (IF browser \/ init_ok THEN 1 ELSE 0)]
         /\ IF (browser \/ init_ok) /\ page_ok
            THEN call' = [call EXCEPT ![p] = [call[p] EXCEPT !.pc = "goto", !.retry_count = 0,
                                                             !.cached_result = None]]
            ELSE call' = [call EXCEPT ![p] = Caught(call[p], "page")]
    /\ UNCHANGED <<gemini_model, browser_initialized, session_context, db,
                   in_memory_cache, work, stamp, clock, probe>>

\* (variant: one attempt too many)
RetryAllowedInclusive(retry_count) == retry_count <= max_retries

\* `while retry_count < self.max_retries`
RetryAllowed(retry_count) == retry_count < max_retries

\* one pass of the retry loop of open_page, lines 148-170; leaving the loop
\* returns the page (lines 172-175)
Goto(p) ==
    /\ call[p].pc = "goto"
    /\ RetryAllowed(call[p].retry_count)
    /\ \E outcome \in GotoOutcomes :
         IF outcome = "ok"
         THEN /\ call' = [call EXCEPT ![p].pc = "content"]
              /\ io' = [io EXCEPT ![p].res.goto = @ + 1, ![p].res.loaded = TRUE]
         ELSE /\ call' = [call EXCEPT ![p].retry_count = @ + 1,
                                      ![p].pc = IF RetryAllowed(call[p].retry_count + 1)
                                                THEN "goto" ELSE "content"]
              /\ io' = [io EXCEPT ![p].res.goto = @ + 1]
    /\ UNCHANGED <<gemini_model, browser_initialized, browser, session_context, db,
                   in_memory_cache, work, stamp, clock, probe>>

\* content = await page.content(), line 105
PageContent(p) ==
    /\ call[p].pc = "content"
    /\ io' = [io EXCEPT ![p].res.content = @ + 1, ![p].res.goto = 0, ![p].res.loaded = FALSE]
    /\ \E ok \in BOOLEAN :
         call' = [call EXCEPT ![p] = IF ok THEN [call[p] EXCEPT !.pc = "extract", !.retry_count = 0]
                                     ELSE Caught(call[p], "content")]
    /\ UNCHANGED <<gemini_model, browser_initialized, browser, session_context, db,
                   in_memory_cache, work, stamp, clock, probe>>

\* utils.extract_text_from_page: the text, or "" when page.evaluate raises
extract_text_from_page(raises, text) == IF raises THEN Str(0, NotJson) ELSE text

\* (variant: one iteration too many)
LoopContinuesInclusive(steps_executed, max_steps) == steps_executed <= max_steps

\* `while steps_executed < max_steps`
LoopContinues(steps_executed, max_steps) == steps_executed < max_steps

LoopHead(steps_executed, max_steps) ==
    IF LoopContinues(steps_executed, max_steps) THEN "plan" ELSE "save"

\* lines 108-113
ExtractText(p) ==
    /\ call[p].pc = "extract"
    /\ \E raises \in BOOLEAN, text \in PageTexts :
         LET c == call[p]
             extracted_data == extract_text_from_page(raises, text)
         IN /\ session_context' = [session_context EXCEPT ![c.session_id].extracted_data =
                                     Upsert(@, c.urls[c.idx], extracted_data)]
            /\ call' = [call EXCEPT ![p] = [c EXCEPT !.current_data = extracted_data,
                                                    !.steps_executed = 0,
                                                    !.pc = LoopHead(0, c.max_steps)]]
    /\ io' = [io EXCEPT ![p].res.extract = @ + 1]
    /\ UNCHANGED <<gemini_model, browser_initialized, browser, db, in_memory_cache, work,
                   stamp, clock, probe>>

\* (variant: the loop dispatches a no_action action like any other)
BreaksNever(next_action) == FALSE

\* `if next_action.get('type') == "no_action": break`
Breaks(next_action) == next_action.type = "no_action"

\* lines 116-126
PlanNextAction(p) ==
    /\ call[p].pc = "plan"
    /\ \E ob \in ActionOracle :
         LET r == plan_next_action(gemini_model, ob)
         IN /\ call' = [call EXCEPT ![p].next_action = r.value,
                                    ![p].pc = IF Breaks(r.value) THEN "save"
                                              ELSE "dispatch"]
            /\ io' = [io EXCEPT ![p].res.plan = @ + 1, ![p].res.oracle = @ + r.requests]
    /\ UNCHANGED <<gemini_model, browser_initialized, browser, session_context, db,
                   in_memory_cache, work, stamp, clock, probe>>

\* (variant: only an unrecognized action leaves the content alone)
UpdatesDataUnlessUnknown(outcome) == outcome.status # "unknown_action"

\* (variant: an action that raised updates the content too)
UpdatesDataOnError(outcome) == outcome.status \in {"success", "error"}

\* `if action_result.get('status') == 'success'`
UpdatesData(outcome) == outcome.status = "success"

\* (variant: only successful actions are logged)
LogUnlessFailed(actions_performed, entry) ==
    IF entry.result.status = "success" THEN Append(actions_performed, entry)
    ELSE actions_performed

\* self.session_context[session_id]["actions_performed"].append(...)
LogAction(actions_performed, entry) == Append(actions_performed, entry)

\* lines 128-144 up to the re-extraction
ExecuteAction(p) ==
    /\ call[p].pc = "dispatch"
    /\ \E pd \in PageBehaviours :
         LET c == call[p]
             o == execute_action(c.next_action, pd)
             entry == [url |-> c.urls[c.idx], action |-> c.next_action,
                       result |-> [status |-> o.status, data |-> o.data]]
         IN /\ session_context' = [session_context EXCEPT ![c.session_id].actions_performed =
                                     LogAction(@, entry)]
            /\ io' = [io EXCEPT ![p].res.dispatch = @ + 1, ![p].res.page_calls = @ + o.calls,
                                ![p].res.last_status = o.status]
            /\ IF UpdatesData(o) /\ ~Truthy(o.data)
               THEN call' = [call EXCEPT ![p].pc = "reextract"]
               ELSE call' = [call EXCEPT ![p] =
                               [c EXCEPT !.current_data = IF UpdatesData(o)
                                                          THEN StrOfList(o.data.len) ELSE @,
                                         !.steps_executed = @ + 1,
                                         !.pc = LoopHead(c.steps_executed + 1, c.max_steps)]]
    /\ UNCHANGED <<gemini_model, browser_initialized, browser, db, in_memory_cache, work,
                   stamp, clock, probe>>

\* lines 141-144
ReExtract(p) ==
    /\ call[p].pc = "reextract"
    /\ \E raises \in BOOLEAN, text \in PageTexts :
         call' = [call EXCEPT ![p] =
                    [call[p] EXCEPT !.current_data = extract_text_from_page(raises, text),
                                    !.steps_executed = @ + 1,
                                    !.pc = LoopHead(call[p].steps_executed + 1, call[p].max_steps)]]
    /\ io' = [io EXCEPT ![p].res.extract = @ + 1]
    /\ UNCHANGED <<gemini_model, browser_initialized, browser, session_context, db,
                   in_memory_cache, work, stamp, clock, probe>>

\* current_data[:1000] + "..." when it is longer than the display length
DisplayedData(current_data) ==
    IF current_data.len > DisplayLimit THEN Str(DisplayLimit + EllipsisLen, NotJson)
    ELSE current_data

\* {"type": "extract_content"}
ExtractContentAction ==
    [kind |-> "action", type |-> "extract_content", selector |-> FALSE, url |-> FALSE,
     form_data |-> FALSE, submit_selector |-> FALSE, reason |-> ""]

\* f"Visited {url}, performed {steps_executed} action(s). Content length: {len(current_data)}."
\* (a text that json.loads rejects; its length stands for its wording)
MemorySummary(url, steps_executed, current_data) == Str(50 + Len(url), NotJson)

\* the result entry of a resource processed in the browser (lines 152-157)
BrowserEntry(url, displayed_data, steps_executed, next_action) ==
    [url |-> url, data |-> displayed_data, source |-> "browser",
     actions |-> IF steps_executed > 0 THEN next_action ELSE ExtractContentAction]

\* Save, lines 146-165
Save(p) ==
    /\ call[p].pc = "save"
    /\ \E write_ok \in BOOLEAN :
         LET c == call[p]
             w1 == write_ok
             w2 == write_ok
             url == c.urls[c.idx]
             displayed_data == DisplayedData(c.current_data)
             memory_summary == MemorySummary(url, c.steps_executed, c.current_data)
         IN /\ call' = [call EXCEPT ![p] =
                          NextResource([c EXCEPT !.result_data =
                              Collect(@, BrowserEntry(url, displayed_data, c.steps_executed,
                                                      c.next_action))])]
            /\ db' = SaveDb(SaveDb(db, c.session_id, TaskKey(c.task, url), displayed_data, w1),
                            c.session_id, SummaryKey(url), memory_summary, w2)
            /\ in_memory_cache' =
                 SaveCache(SaveCache(in_memory_cache, c.session_id, TaskKey(c.task, url),
                                     displayed_data, w1),
                           c.session_id, SummaryKey(url), memory_summary, w2)
            /\ stamp' = SaveStamp(SaveStamp(stamp, c.session_id, TaskKey(c.task, url), w1, clock),
                                   c.session_id, SummaryKey(url), w2, clock)
            /\ session_context' = [session_context EXCEPT ![c.session_id].visited_urls =
                                     Append(@, url)]
    /\ io' = [io EXCEPT ![p].res.db_writes = @ + 2]
    /\ UNCHANGED <<gemini_model, browser_initialized, browser, work, clock, probe>>

\* `"sentiment" in task.lower() or "analyze" in task.lower()`
IsAnalytical(task) ==
    \/ Contains(LowerStr(task), <<"s", "e", "n", "t", "i", "m", "e", "n", "t">>)
    \/ Contains(LowerStr(task), <<"a", "n", "a", "l", "y", "z", "e">>)

\* item.get('data', '')[:4000] raises TypeError for a value that cannot be sliced
DataSliceRaises(v) == v.kind = "parsed" /\ v.shape # "list"

AnalysisValue(shape) == [kind |-> "analysis", shape |-> shape]

\* LLMManager.perform_analysis_task followed by lines 173-176: the analysis
\* object, and the oracle requests made
perform_analysis_task(gm, collected_data, ob, file_ok) ==
    IF ~gm THEN [value |-> AnalysisValue("error"), requests |-> 0]
    ELSE IF \E i \in 1..Len(collected_data) : DataSliceRaises(collected_data[i].data)
    THEN [value |-> AnalysisValue("error"), requests |-> 0]
    ELSE IF ob.raised \/ ~file_ok THEN [value |-> AnalysisValue("error"), requests |-> 1]
    ELSE IF HasBraces(ob.text) /\ JsonObjectOK(JsonSlice(ob.text))
    THEN [value |-> AnalysisValue("oracle"), requests |-> 1]
    ELSE [value |-> AnalysisValue("default"), requests |-> 1]

\* (variant: every task is analysed)
AnalysisStepAlways(gm, task, result_data, ob, file_ok) ==
    perform_analysis_task(gm, result_data, ob, file_ok)

\* lines 167-178: the analysis of the result, and the oracle requests made
AnalysisStep(gm, task, result_data, ob, file_ok) ==
    IF IsAnalytical(task)
    THEN perform_analysis_task(gm, result_data, ob, file_ok)
    ELSE [value |-> AnalysisValue("empty"), requests |-> 0]

\* lines 167-178
Analysis(p) ==
    /\ call[p].pc = "analysis"
    /\ \E ob \in PlanOracle, file_ok \in BOOLEAN :
         LET c == call[p]
             r == AnalysisStep(gemini_model, c.task, c.result_data, ob, file_ok)
         IN /\ call' = [call EXCEPT ![p].analysis = r.value, ![p].pc = "summary",
                                    ![p].initial_plan = None]
            /\ io' = [io EXCEPT ![p].res.oracle = @ + r.requests]
    /\ UNCHANGED <<gemini_model, browser_initialized, browser, session_context, db,
                   in_memory_cache, work, stamp, clock, probe>>

\* LLMManager.generate_summary: never raises
generate_summary(gm, context, ob) ==
    IF ~gm THEN [kind |-> "summary", text |-> "not available", visited |-> 0]
    ELSE IF ob.raised
    THEN [kind |-> "summary", text |-> "task completed", visited |-> Len(context.visited_urls)]
    ELSE [kind |-> "summary", text |-> "oracle", visited |-> 0]

\* lines 180-194
Summary(p) ==
    /\ call[p].pc = "summary"
    /\ \E ob \in {Reply(<<"o", "k">>), Raise(<<"4", "2", "9">>)} :
         LET c == call[p]
             context == session_context[c.session_id]
         IN /\ call' = [call EXCEPT ![p].pc = "done",
                          ![p].result = [status |-> "success",
                                         summary |-> generate_summary(gemini_model, context, ob),
                                         data |-> c.result_data,
                                         analysis |-> c.analysis,
                                         actions_performed |-> context.actions_performed]]
            /\ io' = [io EXCEPT ![p].res.oracle = @ + (IF gemini_model THEN 1 ELSE 0)]
    /\ UNCHANGED <<gemini_model, browser_initialized, browser, session_context, db,
                   in_memory_cache, work, stamp, clock, probe>>

----------------------------------------------------------------------------
(* Specifications *)

\* the steps of a run_task call in progress
Step(p) ==
    \/ InitializeBrowser(p)
    \/ CreateInitialPlan(p)
    \/ CacheCheck(p)
    \/ OpenPage(p)
    \/ Goto(p)
    \/ PageContent(p)
    \/ ExtractText(p)
    \/ PlanNextAction(p)
    \/ ExecuteAction(p)
    \/ ReExtract(p)
    \/ Save(p)
    \/ Analysis(p)
    \/ Summary(p)

\* run_task calls of one caller, one after the other
Next == \E p \in SeqProcs : RunTask(p) \/ Step(p)

Spec == Init /\ [][Next]_vars

\* every awaited call eventually returns or raises
FairSpec == Spec /\ \A p \in SeqProcs : WF_vars(Step(p))

----------------------------------------------------------------------------
(* Properties of run_task *)

FailedStatuses == {"error", "unknown_action"}

\* C1: run_task never raises to its caller: whatever the inputs and whatever
\* each collaborator does, a call that has ended has returned a result whose
\* status is "success" or "error".
C1_NeverRaises ==
    \A p \in Procs :
        /\ call[p].pc # "raised"
        /\ call[p].pc = "done" => call[p].result.status \in {"success", "error"}

\* a call that ended with an error result after page.content() raised
C1_Witness ==
    \E p \in Procs :
        /\ call[p].pc = "done"
        /\ call[p].result = ErrorResult("content")
        /\ io[p].res.content = 1

\* C2: for every resource, the number of next_action requests and the number
\* of dispatcher invocations are each at most max_steps, and zero when
\* max_steps <= 0.
C2_StepBound ==
    \A p \in Procs :
        /\ io[p].res.plan <= Max(call[p].max_steps, 0)
        /\ io[p].res.dispatch <= Max(call[p].max_steps, 0)

\* a resource whose step-loop ran all of its max_steps >= 2 iterations
C2_Witness ==
    \E p \in Procs :
        /\ call[p].max_steps >= 2
        /\ io[p].res.plan = call[p].max_steps
        /\ io[p].res.dispatch = call[p].max_steps

\* the dispatch of caller p returns a non-success outcome in this step
FailedDispatch(p) ==
    /\ call[p].pc = "dispatch"
    /\ io'[p].res.dispatch = io[p].res.dispatch + 1
    /\ io'[p].res.last_status \in FailedStatuses

LoopPcs == {"plan", "dispatch", "reextract"}

\* C3: when a dispatched action returns a non-success outcome in iteration i,
\* the current content is unchanged, the iteration is counted, iteration i+1
\* starts exactly if i+1 < max_steps and otherwise the resource is saved; the
\* step-loop is left only towards Save, and the resource is eventually saved.
C3_FailedOutcomeContinues ==
    /\ [][\A p \in Procs :
            /\ FailedDispatch(p) =>
                 /\ call'[p].current_data = call[p].current_data
                 /\ call'[p].steps_executed = call[p].steps_executed + 1
                 /\ call'[p].idx = call[p].idx
                 /\ call'[p].pc = IF call[p].steps_executed + 1 < call[p].max_steps
                                  THEN "plan" ELSE "save"
            /\ call[p].pc \in LoopPcs => call'[p].pc \in LoopPcs \cup {"save"}]_vars
    /\ \A p \in SeqProcs :
         (io[p].res.last_status \in FailedStatuses /\ call[p].pc \in LoopPcs \cup {"save"})
            ~> (io[p].res.db_writes > 0)

\* iteration 1 is about to start after the dispatch of iteration 0 failed
C3_Witness ==
    \E p \in Procs :
        /\ io[p].res.last_status \in FailedStatuses
        /\ io[p].res.dispatch = 1
        /\ call[p].steps_executed = 1
        /\ call[p].pc = "plan"

\* C4: when no model is configured, should_reuse_result answers false for a
\* cached value and makes no oracle request; the resource is then fetched.
C4_UnavailableNeverReuses ==
    \A p \in Procs :
        io[p].res.reuse = "unavailable" =>
            /\ ~io[p].res.reused
            /\ io[p].res.oracle = 0

\* a cached value was offered without a model and the resource goes on to be opened
C4_Witness ==
    \E p \in Procs :
        /\ io[p].res.reuse = "unavailable"
        /\ ~gemini_model
        /\ Truthy(call[p].cached_result)
        /\ call[p].pc = "open_page"

\* C5: when the model is configured but the reuse request raises, whatever the
\* error text, should_reuse_result answers false: the cached value is not reused.
C5_FailedNeverReuses ==
    \A p \in Procs : io[p].res.reuse = "failed" => ~io[p].res.reused

----------------------------------------------------------------------------
(* Properties of the resource pipeline *)

\* C6: open_page makes at most max_retries (3) goto attempts for a resource;
\* an attempt that does not load the page counts as failed; no attempt follows
\* a successful one; after the last failed attempt open_page returns (the
\* caller goes on to read the page) instead of raising.
C6_RetryBound ==
    [][\A p \in Procs :
         /\ io'[p].res.goto <= max_retries
         /\ io[p].res.loaded => io'[p].res.goto <= io[p].res.goto
         /\ call[p].pc = "goto" =>
              /\ io'[p].res.goto = io[p].res.goto + 1
              /\ io'[p].res.loaded \/ call'[p].retry_count = call[p].retry_count + 1
              /\ call'[p].pc = IF io'[p].res.loaded \/ call'[p].retry_count = max_retries
                               THEN "content" ELSE "goto"]_vars

\* open_page has returned after three failed attempts
C6_Witness ==
    \E p \in Procs :
        /\ call[p].pc = "content"
        /\ io[p].res.goto = max_retries
        /\ call[p].retry_count = max_retries
        /\ ~io[p].res.loaded

\* C7: a capability failure while a resource is processed affects that
\* resource only: a call that has started on its resources ends with a
\* success result holding one entry per resource.
C7_FailureIsPerResource ==
    \A p \in Procs :
        (call[p].pc = "done" /\ call[p].idx >= 1) =>
            /\ call[p].result.status = "success"
            /\ Len(call[p].result.data) = Len(call[p].urls)

\* the counters of the current resource that a cache hit leaves at zero
NoResourceWork(r) ==
    /\ r.new_page = 0
    /\ r.goto = 0
    /\ r.content = 0
    /\ r.extract = 0
    /\ r.plan = 0
    /\ r.dispatch = 0
    /\ r.page_calls = 0
    /\ r.db_writes = 0

\* C8: when the store returns a value v under task:<task>:<resource> and the
\* reuse oracle answers true, the entry appended for the resource has source
\* "cache" and data v, the durable store is not written, and until the next
\* resource starts no page is opened, nothing is extracted, no next_action is
\* requested, nothing is dispatched and nothing is saved.
C8_CacheHit ==
    [][\A p \in Procs :
         /\ (call[p].pc = "cache_check" /\ io'[p].res.reused) =>
              LET c == call[p]
                  url == c.urls[c.idx]
                  v == GetValue(db, in_memory_cache, c.session_id, TaskKey(c.task, url), TRUE)
                  entry == call'[p].result_data[Len(call'[p].result_data)]
              IN /\ Len(call'[p].result_data) = Len(c.result_data) + 1
                 /\ SubSeq(call'[p].result_data, 1, Len(c.result_data)) = c.result_data
                 /\ entry.url = url
                 /\ entry.source = "cache"
                 /\ entry.data = v
                 /\ db' = db
                 /\ call'[p].pc \in {"cache_check", "analysis"}
         /\ io'[p].res.reused => NoResourceWork(io'[p].res)]_vars

\* a resource has just been served from the store
C8_Witness ==
    \E p \in Procs :
        /\ io[p].res.reused
        /\ io[p].res.reuse = "answered"
        /\ call[p].result_data # <<>>
        /\ call[p].result_data[Len(call[p].result_data)].source = "cache"
        /\ Truthy(call[p].result_data[Len(call[p].result_data)].data)

\* C9: with an empty list of urls run_task returns status "success" with
\* data = [], having made no next_action request, no dispatch and no store write.
C9_EmptyListSucceeds ==
    \A p \in Procs :
        (call[p].pc = "done" /\ call[p].urls_is_list /\ call[p].urls = <<>>) =>
            /\ call[p].result.status = "success"
            /\ call[p].result.data = <<>>
            /\ io[p].res.plan = 0
            /\ io[p].res.dispatch = 0
            /\ io[p].res.db_writes = 0

\* C10: a run_task call with an empty list of urls invokes no browser
\* operation: it neither initializes the browser nor opens a page.
C10_EmptyListNeedsNoBrowser ==
    \A p \in Procs :
        (call[p].pc # "idle" /\ call[p].urls_is_list /\ call[p].urls = <<>>) =>
            /\ call[p].pc # "init_browser"
            /\ io[p].init = 0
            /\ io[p].res.new_page = 0

----------------------------------------------------------------------------
(* Input validation *)

\* C11: when urls is not a list, run_task returns the error result with the
\* validation message and has done no partial work: no browser
\* initialization, no oracle request, no page, no store write, and the call
\* leaves the session contexts, the store and the browser as they were.
C11_NotAListIsRejected ==
    [][\A p \in Procs :
         ~call'[p].urls_is_list =>
            /\ call'[p].pc = "done"
            /\ call'[p].result = ErrorResult("URLs must be a list.")
            /\ io'[p] = ZeroIo
            /\ call'[p] # call[p] =>
                 UNCHANGED <<session_context, db, in_memory_cache, stamp, browser,
                             browser_initialized>>]_vars

\* a call with a str for urls was rejected after an earlier call had created
\* the session context, which is still there
C11_Witness ==
    \E p \in Procs :
        /\ ~call[p].urls_is_list
        /\ call[p].pc = "done"
        /\ call[p].result.status = "error"
        /\ session_context[call[p].session_id] # None

----------------------------------------------------------------------------
(* Direct calls of the planner *)

\* replies to the plan prompt: the ones of PlanOracle, a reply without an
\* object, and an object that is not a plan
PlanReplies == PlanOracle \cup {Reply(<<"o", "k">>), Reply(<<"{", "code", "}">>)}

\* everything but the probe and the model configuration is as constructed
ProgramIdle ==
    /\ browser_initialized = FALSE
    /\ browser = FALSE
    /\ session_context = [s \in Sessions |-> None]
    /\ db = <<>>
    /\ in_memory_cache = <<>>
    /\ call = [p \in Procs |-> IdleCall]
    /\ io = [p \in Procs |-> ZeroIo]
    /\ work = 0
    /\ stamp = <<>>
    /\ clock = 0

PlannerInit ==
    /\ ProgramIdle
    /\ gemini_model \in BOOLEAN
    /\ \E task \in Tasks, urls \in UrlLists :
         probe = [kind |-> "probe", op |-> "create_initial_plan", at |-> "called",
                  task |-> task, urls |-> urls]

\* await planner.create_initial_plan(task, urls)
CallCreateInitialPlan ==
    /\ probe.kind = "probe"
    /\ probe.op = "create_initial_plan"
    /\ probe.at = "called"
    /\ \E ob \in PlanReplies :
         LET r == create_initial_plan(gemini_model, probe.task, probe.urls, ob)
         IN probe' = [kind |-> "probe", op |-> "create_initial_plan", at |-> "returned",
                      task |-> probe.task, urls |-> probe.urls, ob |-> ob,
                      value |-> r.value, requests |-> r.requests]
    /\ UNCHANGED <<gemini_model, browser_initialized, browser, session_context, db,
                   in_memory_cache, call, io, work, stamp, clock>>

PlannerNext == CallCreateInitialPlan

PlannerSpec == PlannerInit /\ [][PlannerNext]_vars

\* the reply is a JSON object with the steps of a plan
PlanStructured(ob) ==
    /\ ~ob.raised
    /\ HasBraces(ob.text)
    /\ JsonObjectOK(JsonSlice(ob.text))
    /\ "steps" \in Range(JsonSlice(ob.text))

\* C12: whenever the oracle is unavailable or its reply is not a plan,
\* create_initial_plan returns the fallback plan (one visit step per url, in
\* input order, each with a single extract action), with zero oracle requests
\* when the oracle is unavailable.
C12_FallbackPlan ==
    (probe.kind = "probe" /\ probe.op = "create_initial_plan" /\ probe.at = "returned") =>
        /\ (~gemini_model \/ ~PlanStructured(probe.ob)) =>
              probe.value = FallbackPlan(probe.task, probe.urls)
        /\ ~gemini_model => probe.requests = 0

----------------------------------------------------------------------------
(* Runs without a model *)

\* C13: when no model is configured, a run_task call on a list of n urls
\* returns status "success" with n data entries, all of source "browser",
\* whatever the store holds: nothing is served from the store and no action
\* is dispatched.
C13_UnavailableAllBrowser ==
    \A p \in Procs :
        (~gemini_model /\ call[p].pc = "done" /\ call[p].urls_is_list) =>
            /\ call[p].result.status = "success"
            /\ Len(call[p].result.data) = Len(call[p].urls)
            /\ \A i \in 1..Len(call[p].result.data) :
                  call[p].result.data[i].source = "browser"
            /\ call[p].result.actions_performed = <<>>

----------------------------------------------------------------------------
(* Direct calls of the store (MemoryManager) *)

StoreSessions == {"s1", "s2"}
\* the (session, key) pairs used: two keys of one session, one key shared by two
StoreCells == {<<"s1", <<"k">>>>, <<"s1", <<"j">>>>, <<"s2", <<"k">>>>}

\* values saved: a text that is not JSON, the text "42", and a dict with one member
StoreValues == {Str(3, NotJson), Str(2, "number"), Parsed("dict", 1)}

\* the probe of a store: the calls made so far, the last successful save of
\* each (session, key) with its position among the calls, and the last call
StoreProbe(n, latest, last) ==
    [kind |-> "probe", op |-> "store", n |-> n, latest |-> latest, last |-> last]

StoreInit ==
    /\ ProgramIdle
    /\ gemini_model = FALSE
    /\ probe = StoreProbe(0, <<>>, None)

StoreCall == probe.kind = "probe" /\ probe.op = "store" /\ probe.n < MaxStoreOps

StoreFrame == UNCHANGED <<gemini_model, browser_initialized, browser, session_context,
                          call, io, work>>

\* memory_manager.save(session_id, key, value)
StoreSave ==
    /\ StoreCall
    /\ \E cell \in StoreCells, value \in StoreValues, write_ok \in BOOLEAN :
         /\ db' = SaveDb(db, cell[1], cell[2], value, write_ok)
         /\ in_memory_cache' = SaveCache(in_memory_cache, cell[1], cell[2], value, write_ok)
         /\ stamp' = SaveStamp(stamp, cell[1], cell[2], write_ok, clock)
         /\ probe' = StoreProbe(probe.n + 1,
                         IF write_ok
                         THEN [x \in DOMAIN probe.latest \cup {cell} |->
                                 IF x = cell
                                 THEN [value |-> value, n |-> probe.n + 1,
                                       prev |-> IF cell \in DOMAIN probe.latest
                                                THEN probe.latest[cell].value ELSE None]
                                 ELSE probe.latest[x]]
                         ELSE probe.latest,
                         [kind |-> "save", cell |-> cell, value |-> value, ok |-> write_ok])
    /\ UNCHANGED clock
    /\ StoreFrame

\* memory_manager.get(session_id, key)
StoreGet ==
    /\ StoreCall
    /\ \E cell \in StoreCells, read_ok \in BOOLEAN :
         /\ in_memory_cache' = GetCache(db, in_memory_cache, cell[1], cell[2], read_ok)
         /\ probe' = StoreProbe(probe.n + 1, probe.latest,
                         [kind |-> "get", cell |-> cell,
                          returned |-> GetValue(db, in_memory_cache, cell[1], cell[2], read_ok),
                          db_read |-> GetReadsDb(in_memory_cache, cell[1], cell[2]),
                          read_ok |-> read_ok,
                          follows_save |-> /\ probe.last.kind = "save"
                                           /\ probe.last.cell = cell
                                           /\ probe.last.ok])
    /\ UNCHANGED <<db, stamp, clock>>
    /\ StoreFrame

\* memory_manager.get_all_for_session(session_id)
StoreGetAll ==
    /\ StoreCall
    /\ \E session_id \in StoreSessions :
       \E rows \in RowOrders(db, stamp, session_id) :
         probe' = StoreProbe(probe.n + 1, probe.latest,
                     [kind |-> "get_all", session_id |-> session_id,
                      returned |-> get_all_for_session(db, session_id, rows)])
    /\ UNCHANGED <<db, in_memory_cache, stamp, clock>>
    /\ StoreFrame

\* a new MemoryManager on the same database file: the mirror starts empty
StoreRestart ==
    /\ StoreCall
    /\ in_memory_cache # <<>>
    /\ in_memory_cache' = <<>>
    /\ UNCHANGED <<db, stamp, clock, probe>>
    /\ StoreFrame

\* a second passes
Tick ==
    /\ StoreCall
    /\ clock < MaxClock
    /\ clock' = clock + 1
    /\ UNCHANGED <<db, in_memory_cache, stamp, probe>>
    /\ StoreFrame

StoreNext == StoreSave \/ StoreGet \/ StoreGetAll \/ StoreRestart \/ Tick

StoreSpec == StoreInit /\ [][StoreNext]_vars

StoreProbed == probe.kind = "probe" /\ probe.op = "store"

\* C14: a get that follows a save of a value v to the same (session, key)
\* returns a value equal to v, whether the mirror holds the key or not.
C14_RoundTrip ==
    (StoreProbed /\ probe.last.kind = "get" /\ probe.last.follows_save /\ probe.last.read_ok) =>
        probe.last.returned = probe.latest[probe.last.cell].value

GetStep == StoreProbed /\ probe'.n = probe.n + 1 /\ probe'.last.kind = "get"

\* C16: get returns the mirror's entry when there is one, without reading the
\* table; on a mirror miss with a row in the table, the value returned is put
\* into the mirror (so the next get of the key is served from the mirror); a
\* get of an absent key returns None and changes neither mirror nor table.
\* (A read of the table that fails returns None and changes nothing.)
C16_ReadThrough ==
    [][GetStep =>
         LET g == probe'.last
             hit == g.cell \in DOMAIN in_memory_cache
             row == g.cell \in DOMAIN db
         IN /\ db' = db
            /\ hit => /\ g.returned = in_memory_cache[g.cell]
                      /\ ~g.db_read
                      /\ in_memory_cache' = in_memory_cache
            /\ (~hit /\ row /\ g.read_ok) =>
                      /\ g.db_read
                      /\ g.returned # None
                      /\ DOMAIN in_memory_cache' = DOMAIN in_memory_cache \cup {g.cell}
                      /\ in_memory_cache'[g.cell] = g.returned
                      /\ \A x \in DOMAIN in_memory_cache :
                            in_memory_cache'[x] = in_memory_cache[x]
            /\ (~hit /\ (~row \/ ~g.read_ok)) =>
                      /\ g.returned = None
                      /\ in_memory_cache' = in_memory_cache]_vars

\* a get has read a row from the table and left its value in the mirror
C16_Witness ==
    /\ StoreProbed
    /\ probe.last.kind = "get"
    /\ probe.last.db_read
    /\ probe.last.returned # None
    /\ probe.last.cell \in DOMAIN in_memory_cache
    /\ in_memory_cache[probe.last.cell] = probe.last.returned

\* C17: get_all_for_session returns the entries of the session and only
\* those, the most recently written first: when key a was last written after
\* key b, a comes before b.
C17_MostRecentFirst ==
    (StoreProbed /\ probe.last.kind = "get_all") =>
        LET r == probe.last.returned
            s1 == probe.last.session_id
        IN /\ {r[i].key : i \in DOMAIN r} = {c[2] : c \in {x \in DOMAIN probe.latest : x[1] = s1}}
           /\ \A i, j \in DOMAIN r :
                 i < j => probe.latest[<<s1, r[i].key>>].n > probe.latest[<<s1, r[j].key>>].n

----------------------------------------------------------------------------
(* RabbitAgent._execute_action called directly, on every action value *)

DispatchTypes == {"click", "fill_form", "navigate", "extract", "no_action", "scroll", NoType}

\* the tags the dispatcher knows
KnownTypes == {"click", "fill_form", "navigate", "extract", "no_action"}

\* action dictionaries with every combination of parameters, and a value
\* that is no dictionary
DispatchActions ==
    {[kind |-> "action", type |-> t, selector |-> s, url |-> u, form_data |-> f,
      submit_selector |-> b, reason |-> ""] :
        t \in DispatchTypes, s \in BOOLEAN, u \in BOOLEAN, f \in BOOLEAN, b \in BOOLEAN}
    \cup {Parsed("list", 1)}

DispatchBehaviours == {PageDoes(r, t, n) : r \in BOOLEAN, t \in ErrorTexts, n \in 0..1}

DispatchInit ==
    /\ ProgramIdle
    /\ gemini_model = FALSE
    /\ \E action \in DispatchActions, pd \in DispatchBehaviours :
         probe = [kind |-> "probe", op |-> "_execute_action", at |-> "called",
                  action |-> action, pd |-> pd]

\* await self._execute_action(page, action)
CallExecuteAction ==
    /\ probe.kind = "probe"
    /\ probe.op = "_execute_action"
    /\ probe.at = "called"
    /\ LET o == execute_action(probe.action, probe.pd)
       IN probe' = [kind |-> "probe", op |-> "_execute_action",
                    at |-> IF o.status = "raised" THEN "raised" ELSE "returned",
                    action |-> probe.action, pd |-> probe.pd, outcome |-> o]
    /\ UNCHANGED <<gemini_model, browser_initialized, browser, session_context, db,
                   in_memory_cache, call, io, work, stamp, clock>>

DispatchNext == CallExecuteAction

DispatchSpec == DispatchInit /\ [][DispatchNext]_vars

\* the direct call of _execute_action is over
Dispatched ==
    /\ probe.kind = "probe"
    /\ probe.op = "_execute_action"
    /\ probe.at # "called"

\* whether the action is a dictionary with the given tag
Tagged(action, t) == action.kind = "action" /\ action.type = t

\* C18: _execute_action never raises: whatever the action value and whatever
\* a page call raises, it returns an Outcome; when a page call raises, the
\* Outcome has status "error" and carries the text of the exception (that
\* the step loop goes on after such an Outcome is C3).
C18_DispatcherNeverRaises ==
    Dispatched =>
        /\ probe.at = "returned"
        /\ probe.outcome.status \in {"success", "unknown_action", "error"}
        /\ (probe.pd.raises /\ probe.outcome.calls > 0) =>
               /\ probe.outcome.status = "error"
               /\ probe.outcome.message = probe.pd.text
        /\ probe.action.kind # "action" => probe.outcome.status = "error"

\* a page call of a dispatched action has raised
C18_Witness ==
    /\ Dispatched
    /\ probe.pd.raises
    /\ probe.outcome.calls > 0
    /\ probe.outcome.status = "error"
    /\ probe.outcome.message = <<"s", "a", "y", " ", "y", "e", "s">>

\* the action lacks the parameter its tag requires
LacksParameter(action) ==
    \/ Tagged(action, "navigate") /\ ~action.url
    \/ Tagged(action, "click") /\ ~action.selector
    \/ Tagged(action, "fill_form") /\ ~action.form_data
    \/ Tagged(action, "extract") /\ ~action.selector

\* C19: an action tagged navigate, click, fill_form or extract that lacks its
\* required parameter (url, selector, form_data, selector) makes no page call
\* and its Outcome is not a success.
C19_MissingParameterNotAttempted ==
    (Dispatched /\ LacksParameter(probe.action)) =>
        /\ probe.outcome.calls = 0
        /\ probe.outcome.status # "success"

\* C20: a no_action action makes no page call and succeeds; an action whose
\* tag is none of click, fill_form, navigate, extract, no_action makes no
\* page call and gets the Outcome with status "unknown_action".
C20_NoActionAndUnknownTag ==
    Dispatched =>
        /\ Tagged(probe.action, "no_action") =>
               /\ probe.outcome.calls = 0
               /\ probe.outcome.status = "success"
        /\ (probe.action.kind = "action" /\ probe.action.type \notin KnownTypes \cup {NoType}) =>
               /\ probe.outcome.calls = 0
               /\ probe.outcome.status = "unknown_action"

\* an action with a tag the dispatcher does not know, and every parameter,
\* has been dispatched on a page whose calls raise
C20_Witness ==
    /\ Dispatched
    /\ Tagged(probe.action, "scroll")
    /\ probe.action.selector /\ probe.action.url
    /\ probe.action.form_data /\ probe.action.submit_selector
    /\ probe.pd.raises
    /\ probe.outcome.status = "unknown_action"

----------------------------------------------------------------------------
(* The step loop and Save of run_task *)

\* the Outcome logged by the dispatch that has just been made for a session
LastOutcome(context) == context.actions_performed[Len(context.actions_performed)].result

\* the texts a re-extraction may return
ExtractedTexts == {extract_text_from_page(r, t) : r \in BOOLEAN, t \in PageTexts}

\* C21: in the step loop, after a success Outcome with data the current
\* content is that data (as str(data)); after a success Outcome without data
\* the page is extracted again and the text is the current content; the
\* request for the next action and any other Outcome leave the content alone.
C21_ContentUpdate ==
    [][\A p \in Procs :
         LET c == call[p]
             d == call'[p]
         IN /\ (c.pc = "dispatch" /\ d # c) =>
                  LET o == LastOutcome(session_context'[c.session_id])
                  IN IF o.status = "success" /\ Truthy(o.data)
                     THEN /\ d.pc \in {"plan", "save"}
                          /\ d.current_data = StrOfList(o.data.len)
                     ELSE IF o.status = "success"
                     THEN /\ d.pc = "reextract"
                          /\ d.current_data = c.current_data
                     ELSE /\ d.pc \in {"plan", "save"}
                          /\ d.current_data = c.current_data
            /\ (c.pc = "reextract" /\ d # c) =>
                  /\ io'[p].res.extract = io[p].res.extract + 1
                  /\ d.current_data \in ExtractedTexts
                  /\ d.pc \in {"plan", "save"}
            /\ (c.pc = "plan" /\ d # c) => d.current_data = c.current_data]_vars

\* an extract action has returned one element text, which is the content now
C21_Witness ==
    \E p \in Procs :
        /\ call[p].pc \in {"plan", "save"}
        /\ call[p].steps_executed > 0
        /\ io[p].res.last_status = "success"
        /\ call[p].current_data = StrOfList(1)

\* C22: when plan_next_action returns a no_action action the step loop ends
\* at once: the action is neither dispatched nor logged, and the next step
\* of the resource is Save, which asks for no further action.
C22_NoActionEndsLoop ==
    [][\A p \in Procs :
         LET c == call[p]
             d == call'[p]
         IN /\ (c.pc = "plan" /\ d # c /\ d.next_action.type = "no_action") =>
                  /\ d.pc = "save"
                  /\ io'[p].res.plan = io[p].res.plan + 1
                  /\ io'[p].res.dispatch = io[p].res.dispatch
                  /\ d.steps_executed = c.steps_executed
                  /\ UNCHANGED session_context
            /\ (c.pc = "save" /\ d # c) =>
                  /\ d.pc \in {"cache_check", "analysis"}
                  /\ io'[p].res.plan = io[p].res.plan
                  /\ io'[p].res.dispatch = io[p].res.dispatch
                  /\ session_context'[c.session_id].actions_performed
                        = session_context[c.session_id].actions_performed]_vars

\* the oracle has answered no_action while iterations were left
C22_Witness ==
    \E p \in Procs :
        /\ call[p].pc = "save"
        /\ call[p].next_action.kind = "action"
        /\ call[p].next_action.type = "no_action"
        /\ call[p].next_action.reason = "oracle"
        /\ call[p].steps_executed = 1
        /\ call[p].max_steps = 2

\* whether a key of the store is a cache key f"task:{task}:{url}"
IsTaskKey(key) == Len(key) >= 5 /\ SubSeq(key, 1, 5) = <<"t", "a", "s", "k", ":">>

\* C24: for every resource processed in the browser, the data of its result
\* entry and the value stored under its cache key are at most 1000 long.
C24_SaveTruncation ==
    /\ \A p \in Procs : \A i \in DOMAIN call[p].result_data :
          call[p].result_data[i].source = "browser" =>
             call[p].result_data[i].data.len <= DisplayLimit
    /\ \A k \in DOMAIN db : IsTaskKey(k[2]) => db[k].len <= DisplayLimit

IsBrowserEntry(entry) == entry.source = "browser"

\* the urls of the entries of a result that were processed in the browser
BrowserUrls(result_data) ==
    LET sel == SelectSeq(result_data, IsBrowserEntry)
    IN [i \in DOMAIN sel |-> sel[i].url]

\* C25: Save leaves an entry under task:<task>:<resource> and one under
\* summary:<resource> in the store of the session and appends the resource
\* to the visited list; when run_task returns a success, the visited list of
\* its session is, in order, the resources whose entry has source "browser".
C25_SaveEffects ==
    [][\A p \in Procs :
         LET c == call[p]
             d == call'[p]
         IN /\ (c.pc = "save" /\ d # c) =>
                  /\ <<c.session_id, TaskKey(c.task, c.urls[c.idx])>> \in DOMAIN db'
                  /\ <<c.session_id, SummaryKey(c.urls[c.idx])>> \in DOMAIN db'
                  /\ session_context'[c.session_id].visited_urls
                        = Append(session_context[c.session_id].visited_urls, c.urls[c.idx])
            /\ (c.pc = "summary" /\ d.pc = "done" /\ d.result.status = "success") =>
                  session_context'[c.session_id].visited_urls = BrowserUrls(d.result.data)]_vars

\* the positions of a call at which a resource is being processed
ResourcePcs == {"cache_check", "open_page", "goto", "content", "extract", "plan",
                "dispatch", "reextract", "save"}

\* C26: the data of a success result has one entry per input resource, in
\* input order, each with source "cache" or "browser"; while resource k is
\* processed the entries of the k-1 resources before it, and only those, have
\* been collected.
C26_OneEntryPerResource ==
    \A p \in Procs :
        LET c == call[p]
        IN /\ c.pc \in ResourcePcs =>
                /\ c.idx \in 1..Len(c.urls)
                /\ Len(c.result_data) = c.idx - 1
           /\ c.pc \in ResourcePcs \cup {"analysis", "summary"} =>
                \A k \in DOMAIN c.result_data :
                    /\ c.result_data[k].url = c.urls[k]
                    /\ c.result_data[k].source \in {"cache", "browser"}
           /\ (c.pc = "done" /\ c.result.status = "success") =>
                /\ Len(c.result.data) = Len(c.urls)
                /\ \A k \in DOMAIN c.result.data :
                      /\ c.result.data[k].url = c.urls[k]
                      /\ c.result.data[k].source \in {"cache", "browser"}

\* a success over a resource given twice: fetched first, then served from the store
C26_Witness ==
    \E p \in Procs :
        /\ call[p].pc = "done"
        /\ call[p].result.status = "success"
        /\ call[p].urls = <<<<"a">>, <<"a">>>>
        /\ call[p].result.data[1].source = "browser"
        /\ call[p].result.data[2].source = "cache"

IsPrefix(a, b) == Len(a) <= Len(b) /\ SubSeq(b, 1, Len(a)) = a

\* C27: the context of a session is created at the first use of its id and
\* then only grows: over successive run_task calls with the same id the
\* visited list and the action log keep every earlier entry.
C27_ContextOnlyGrows ==
    [][\A s \in Sessions :
         session_context[s] # None =>
            /\ session_context'[s] # None
            /\ IsPrefix(session_context[s].visited_urls, session_context'[s].visited_urls)
            /\ IsPrefix(session_context[s].actions_performed,
                        session_context'[s].actions_performed)]_vars

----------------------------------------------------------------------------
(* run_task calls that overlap on one RabbitAgent *)

\* a caller that is not running: outside run_task, or suspended in an awaited
\* call of the browser (the calls of the language model are blocking calls,
\* generate_content, that never yield to another caller)
AwaitsBrowser(c) ==
    c.pc \in {"idle", "done", "init_browser", "open_page", "goto", "content", "extract"}

\* one event loop: caller p runs while every other caller is suspended
MayRun(p) == \A q \in Procs \ {p} : AwaitsBrowser(call[q])

\* run_task(task, session_id, urls, 0): a call that asks for no step
RunTaskNoSteps(p) ==
    /\ MayRun(p)
    /\ RunTask(p)
    /\ call'[p].max_steps = 0

\* the steps of a call whose step loop is empty
StepNoSteps(p) ==
    \/ MayRun(p) /\ InitializeBrowser(p)
    \/ MayRun(p) /\ CreateInitialPlan(p)
    \/ MayRun(p) /\ CacheCheck(p)
    \/ MayRun(p) /\ OpenPage(p)
    \/ MayRun(p) /\ Goto(p)
    \/ MayRun(p) /\ PageContent(p)
    \/ MayRun(p) /\ ExtractText(p)
    \/ MayRun(p) /\ Save(p)
    \/ MayRun(p) /\ Analysis(p)
    \/ MayRun(p) /\ Summary(p)

\* two callers whose calls interleave at the awaited calls of the browser
ConcNext == \E p \in Procs : RunTaskNoSteps(p) \/ StepNoSteps(p)

ConcSpec == Init /\ [][ConcNext]_vars

\* initialize_browser invocations made by the calls in progress or last ended
InitCalls ==
    LET sum[Q \in SUBSET Procs] ==
            IF Q = {} THEN 0
            ELSE LET q == CHOOSE x \in Q : TRUE
                 IN io[q].init + sum[Q \ {q}]
    IN sum[Procs]

\* C28: over any interleaving of run_task calls on one RabbitAgent,
\* initialize_browser is invoked at most once, and no page is opened before
\* it has completed.
C28_InitializedOnce ==
    /\ InitCalls <= 1
    /\ \A p \in Procs : io[p].res.new_page > 0 => browser

\* C39: run_task calls that overlap on one RabbitAgent with the same session
\* id do not corrupt each other: when a call returns a success, the visited
\* list it reports on is, in order, the resources that call saved, and the
\* actions_performed it returns are the actions that call dispatched (none
\* for a call that asks for no step).
C39_OverlapsKeepApart ==
    [][\A p \in Procs :
         LET c == call[p]
             d == call'[p]
         IN (c.pc = "summary" /\ d.pc = "done" /\ d.result.status = "success") =>
               /\ session_context[c.session_id].visited_urls = BrowserUrls(c.result_data)
               /\ c.max_steps <= 0 => d.result.actions_performed = <<>>]_vars

----------------------------------------------------------------------------
(* The end of run_task, lines 167-194, entered with the results collected *)

\* result lists the loop over the resources may have collected
CollectedResults ==
    {<<>>,
     <<BrowserEntry(<<"a">>, Str(DisplayLimit + EllipsisLen, NotJson), 0, None)>>,
     <<CacheEntry(<<"a">>, Parsed("dict", 1))>>,
     <<CacheEntry(<<"a">>, Str(2, NotJson)),
       BrowserEntry(<<"b">>, Str(0, NotJson), 0, None)>>}

AnalysisReplies == PlanOracle \cup {Reply(<<"o", "k">>)}

AnalysisInit ==
    /\ ProgramIdle
    /\ gemini_model \in BOOLEAN
    /\ \E task \in Tasks, result_data \in CollectedResults :
         probe = [kind |-> "probe", op |-> "analysis", at |-> "called",
                  task |-> task, result_data |-> result_data]

\* lines 167-178, then the status, data and analysis of the result (187-193)
CallAnalysis ==
    /\ probe.kind = "probe"
    /\ probe.op = "analysis"
    /\ probe.at = "called"
    /\ \E ob \in AnalysisReplies, file_ok \in BOOLEAN :
         LET r == AnalysisStep(gemini_model, probe.task, probe.result_data, ob, file_ok)
         IN probe' = [kind |-> "probe", op |-> "analysis", at |-> "returned",
                      task |-> probe.task, result_data |-> probe.result_data,
                      ob |-> ob, file_ok |-> file_ok, requests |-> r.requests,
                      result |-> [status |-> "success", data |-> probe.result_data,
                                  analysis |-> r.value]]
    /\ UNCHANGED <<gemini_model, browser_initialized, browser, session_context, db,
                   in_memory_cache, call, io, work, stamp, clock>>

AnalysisNext == CallAnalysis

AnalysisSpec == AnalysisInit /\ [][AnalysisNext]_vars

AnalysisReturned ==
    /\ probe.kind = "probe"
    /\ probe.op = "analysis"
    /\ probe.at = "returned"

\* C29: the analysis is requested exactly when the task contains "sentiment"
\* or "analyze" in any case; when it is requested and the oracle is
\* unavailable or the request fails, the result is a success with all the
\* data and an analysis that carries an error; for any other task the
\* analysis is the empty object and no request is made.
C29_AnalysisDegrades ==
    AnalysisReturned =>
        /\ probe.result.status = "success"
        /\ probe.result.data = probe.result_data
        /\ IsAnalytical(probe.task) <=> probe.result.analysis.shape # "empty"
        /\ ~IsAnalytical(probe.task) => probe.requests = 0
        /\ (IsAnalytical(probe.task) /\ (~gemini_model \/ probe.ob.raised)) =>
               probe.result.analysis.shape = "error"

\* the request of an analytical task has raised
C29_Witness ==
    /\ AnalysisReturned
    /\ gemini_model
    /\ IsAnalytical(probe.task)
    /\ probe.ob.raised
    /\ probe.requests = 1
    /\ Len(probe.result.data) = 2
    /\ probe.result.analysis.shape = "error"

\* C36: when an earlier run_task of the orchestrator has saved an entry for
\* the session, task and resource, CacheCheck finds it and, with the oracle
\* available, asks the reuse oracle about it before anything else is done
\* for the resource, whatever the saved content is.
C36_SaveFeedsCacheCheck ==
    [][\A p \in Procs :
         LET c == call[p]
             d == call'[p]
         IN (/\ c.pc = "cache_check"
             /\ d # c
             /\ gemini_model
             /\ <<c.session_id, TaskKey(c.task, c.urls[c.idx])>> \in DOMAIN in_memory_cache) =>
                /\ io'[p].res.reuse \in {"answered", "failed"}
                /\ io'[p].res.oracle = 1
                /\ io'[p].res.new_page = 0]_vars

\* action_type = action.get("type", "no_action"): the tag the dispatcher acts on
DispatchedAs(action) == IF action.type = NoType THEN "no_action" ELSE action.type

\* C37: an action that the dispatcher executes as no_action, an action
\* without type included, ends the step loop without being dispatched: no
\* dispatched (logged) action is one the dispatcher executes as no_action.
C37_NoActionAgreed ==
    /\ \A p \in Procs :
          call[p].pc = "dispatch" => DispatchedAs(call[p].next_action) # "no_action"
    /\ \A s \in Sessions :
          session_context[s] # None =>
             \A i \in DOMAIN session_context[s].actions_performed :
                 DispatchedAs(session_context[s].actions_performed[i].action) # "no_action"

\* iterations of the step loop completed for the current resource, the one
\* whose re-extraction is under way included
StepsDone(c) == c.steps_executed + (IF c.pc = "reextract" THEN 1 ELSE 0)

\* the entries of the log are grouped by resource, in the order of urls
GroupedByResource(actions_performed, urls) ==
    \E f \in [DOMAIN actions_performed -> DOMAIN urls] :
        /\ \A i, j \in DOMAIN actions_performed : i < j => f[i] <= f[j]
        /\ \A i \in DOMAIN actions_performed : urls[f[i]] = actions_performed[i].url

\* C38: within one run_task call every dispatch appends one entry (resource,
\* action, outcome) at the end of the action log and nothing else appends to
\* it, so the log grows with the steps executed; the actions_performed of a
\* success result is that log: one entry per step executed, at most
\* max_steps per resource, grouped by resource in input order.
C38_ActionLogAccounting ==
    [][\A p \in SeqProcs :
         LET c == call[p]
             d == call'[p]
             log == IF session_context[c.session_id] = None THEN <<>>
                    ELSE session_context[c.session_id].actions_performed
             log2 == session_context'[c.session_id].actions_performed
         IN /\ (c.pc = "dispatch" /\ d # c) =>
                  /\ Len(log2) = Len(log) + 1
                  /\ SubSeq(log2, 1, Len(log)) = log
                  /\ log2[Len(log2)].url = c.urls[c.idx]
                  /\ log2[Len(log2)].action = c.next_action
                  /\ log2[Len(log2)].result.status = io'[p].res.last_status
                  /\ StepsDone(d) = StepsDone(c) + 1
            /\ (c.pc \in {"plan", "reextract"} /\ d # c) =>
                  /\ log2 = log
                  /\ StepsDone(d) = StepsDone(c)
            /\ (c.pc \in {"initial_plan", "cache_check", "open_page", "goto", "content",
                          "extract", "save", "analysis", "summary"} /\ d # c) =>
                  /\ log2 = log
                  /\ d.pc \in ResourcePcs => StepsDone(d) = 0
            /\ (c.pc = "summary" /\ d.pc = "done" /\ d.result.status = "success") =>
                  /\ d.result.actions_performed = log
                  /\ Len(log) <= Len(c.urls) * Max(c.max_steps, 0)
                  /\ GroupedByResource(log, c.urls)]_vars

\* a success over two resources with one dispatched action each
C38_Witness ==
    \E p \in SeqProcs :
        /\ call[p].pc = "done"
        /\ call[p].result.status = "success"
        /\ call[p].urls = <<<<"a">>, <<"b">>>>
        /\ Len(call[p].result.actions_performed) = 2
        /\ call[p].result.actions_performed[1].url = <<"a">>
        /\ call[p].result.actions_performed[2].url = <<"b">>

----------------------------------------------------------------------------
(* Termination of run_task *)

\* C30: when every awaited call eventually returns or raises, a run_task
\* call eventually returns, and by then every resource whose processing had
\* started has its entry in the results (it reached CacheHit or Save).
C30_Termination ==
    \A p \in Procs :
        (call[p].pc \notin {"idle", "done"})
            ~> (call[p].pc = "done" /\ Len(call[p].result_data) = call[p].idx)

----------------------------------------------------------------------------
(* Planner.plan_next_action called directly, as the step loop calls it *)

\* replies of the oracle: those of the step loop, and an object json.loads rejects
NextActionReplies == ActionOracle \cup {Reply(<<"{", "o", "k", "}">>)}

NextActionInit ==
    /\ ProgramIdle
    /\ gemini_model \in BOOLEAN
    /\ \E task \in Tasks, url \in Urls, page_content \in PageTexts :
         probe = [kind |-> "probe", op |-> "plan_next_action", at |-> "called",
                  task |-> task, url |-> url, page_content |-> page_content]

\* next_action = await self.planner.plan_next_action(...), then the test of
\* line 125
CallPlanNextAction ==
    /\ probe.kind = "probe"
    /\ probe.op = "plan_next_action"
    /\ probe.at = "called"
    /\ \E ob \in NextActionReplies :
         LET r == plan_next_action(gemini_model, ob)
         IN probe' = [kind |-> "probe", op |-> "plan_next_action", at |-> "returned",
                      task |-> probe.task, url |-> probe.url,
                      page_content |-> probe.page_content, ob |-> ob,
                      value |-> r.value, requests |-> r.requests,
                      breaks |-> Breaks(r.value)]
    /\ UNCHANGED <<gemini_model, browser_initialized, browser, session_context, db,
                   in_memory_cache, call, io, work, stamp, clock>>

NextActionNext == CallPlanNextAction

NextActionSpec == NextActionInit /\ [][NextActionNext]_vars

\* the direct call of plan_next_action is over
NextActionReturned ==
    /\ probe.kind = "probe"
    /\ probe.op = "plan_next_action"
    /\ probe.at = "returned"

\* the oracle gave no action: there is no model, the request raised, or the
\* reply holds no object that json.loads accepts
NoActionFromOracle(gm, ob) ==
    \/ ~gm
    \/ ob.raised
    \/ ~HasBraces(ob.text)
    \/ ~JsonObjectOK(JsonSlice(ob.text))

\* C23: when the oracle is unavailable, its request fails, or its reply
\* holds no parsable JSON object, plan_next_action returns a no_action action
\* with a reason, and the step loop of the resource ends without a dispatch.
C23_NextActionFallback ==
    (NextActionReturned /\ NoActionFromOracle(gemini_model, probe.ob)) =>
        /\ probe.value.kind = "action"
        /\ probe.value.type = "no_action"
        /\ probe.value.reason # ""
        /\ probe.breaks

----------------------------------------------------------------------------
(* BrowserController.navigate called directly *)

\* whether the last attempt got a success response
Loaded(attempts) == attempts # <<>> /\ attempts[Len(attempts)] = "ok"

\* what one goto attempt does: as in open_page, and a success response
\* after which wait_for_load_state raises
NavigateOutcomes == GotoOutcomes \cup {"not_idle"}

NavigateProbe(url, has_browser, has_page, at, attempts, result) ==
    [kind |-> "probe", op |-> "navigate", url |-> url, has_browser |-> has_browser,
     has_page |-> has_page, at |-> at, attempts |-> attempts, result |-> result]

\* a controller without browser, with a browser, or with a page already open
NavigateInit ==
    /\ ProgramIdle
    /\ gemini_model = FALSE
    /\ \E url \in Urls, has_browser \in BOOLEAN, has_page \in BOOLEAN :
         /\ has_page => has_browser
         /\ probe = NavigateProbe(url, has_browser, has_page, "called", <<>>, None)

NavigateFrame ==
    UNCHANGED <<gemini_model, browser_initialized, browser, session_context, db,
                in_memory_cache, call, io, work, stamp, clock>>

\* navigate with a page open: lines 250-252, one goto and the wait for the
\* load state; whatever raises is caught at lines 253-255
NavigateOnPage ==
    /\ probe.kind = "probe" /\ probe.op = "navigate"
    /\ probe.at = "called"
    /\ probe.has_page
    /\ \E outcome \in NavigateOutcomes :
         probe' = [probe EXCEPT !.at = "returned",
                                !.attempts = <<outcome>>,
                                !.result = [kind |-> "bool", value |-> outcome = "ok"]]
    /\ NavigateFrame

\* navigate without a page, lines 246-248: open_page starts (lines 132-135);
\* what initialize_browser or new_page raises is caught by navigate
NavigateOpensPage ==
    /\ probe.kind = "probe" /\ probe.op = "navigate"
    /\ probe.at = "called"
    /\ ~probe.has_page
    /\ \E init_ok \in BOOLEAN, page_ok \in BOOLEAN :
         IF (probe.has_browser \/ init_ok) /\ page_ok
         THEN probe' = [probe EXCEPT !.at = "goto", !.has_browser = TRUE]
         ELSE probe' = [probe EXCEPT !.at = "returned",
                                     !.has_browser = probe.has_browser \/ init_ok,
                                     !.result = [kind |-> "bool", value |-> FALSE]]
    /\ NavigateFrame

\* one pass of the retry loop of open_page, lines 148-170; when the loop is
\* left open_page returns the page and navigate returns True (lines 172-175,
\* 247-248)
NavigateGoto ==
    /\ probe.kind = "probe" /\ probe.op = "navigate"
    /\ probe.at = "goto"
    /\ RetryAllowed(Len(probe.attempts))
    /\ \E outcome \in NavigateOutcomes :
         LET attempts == Append(probe.attempts, outcome)
         IN IF outcome = "ok" \/ ~RetryAllowed(Len(attempts))
            THEN probe' = [probe EXCEPT !.attempts = attempts, !.at = "returned",
                                        !.has_page = TRUE,
                                        !.result = [kind |-> "bool", value |-> TRUE]]
            ELSE probe' = [probe EXCEPT !.attempts = attempts]
    /\ NavigateFrame

NavigateNext == NavigateOnPage \/ NavigateOpensPage \/ NavigateGoto

NavigateSpec == NavigateInit /\ [][NavigateNext]_vars

NavigateReturned ==
    /\ probe.kind = "probe"
    /\ probe.op = "navigate"
    /\ probe.at = "returned"

\* C31: navigate never raises; it returns true only when the resource was
\* loaded with a success response, and false when every attempt has failed.
C31_NavigateResult ==
    (probe.kind = "probe" /\ probe.op = "navigate") =>
        /\ probe.at \in {"called", "goto", "returned"}
        /\ NavigateReturned =>
              /\ probe.result.kind = "bool"
              /\ probe.result.value => Loaded(probe.attempts)
              /\ ~Loaded(probe.attempts) => ~probe.result.value

----------------------------------------------------------------------------
(* The mirror of the store against the table *)

\* what get returns from the table alone, as a new instance on the same file does
GetFromTable(d, session_id, key) == GetValue(d, <<>>, session_id, key, TRUE)

\* C33: every get returns what a store without mirror returns for the same
\* sequence of calls, that is the value read from the table. (Gets whose
\* read of the table fails are left out.)
C33_MirrorTransparent ==
    (StoreProbed /\ probe.last.kind = "get" /\ (probe.last.db_read => probe.last.read_ok)) =>
        probe.last.returned = GetFromTable(db, probe.last.cell[1], probe.last.cell[2])

----------------------------------------------------------------------------
(* MemoryManager.save when the write to the database fails *)

\* how the write of a save goes: both statements succeed, cursor.execute
\* raises, or conn.commit raises after the INSERT was executed
WriteOutcomes == {"ok", "execute_raises", "commit_raises"}

\* the rows as the connection of the instance reads them after the save: an
\* INSERT whose commit raised stays in the open transaction of the
\* connection, where its own SELECTs see it and the next commit writes it
SaveRows(d, session_id, key, value, outcome) ==
    IF outcome = "execute_raises" THEN d
    ELSE Upsert(d, <<session_id, key>>, SavedText(value))

\* the mirror is updated after the commit only
SaveMirror(c, session_id, key, value, outcome) ==
    SaveCache(c, session_id, key, value, outcome = "ok")

\* rows an earlier process may have left in the file
EarlierRows == {<<>>, [c \in {<<"s1", <<"k">>>>} |-> Str(3, NotJson)]}

WriteProbe(n, last) == [kind |-> "probe", op |-> "writes", n |-> n, last |-> last]

WriteInit ==
    /\ browser_initialized = FALSE
    /\ browser = FALSE
    /\ session_context = [s \in Sessions |-> None]
    /\ db \in EarlierRows
    /\ in_memory_cache = <<>>
    /\ call = [p \in Procs |-> IdleCall]
    /\ io = [p \in Procs |-> ZeroIo]
    /\ work = 0
    /\ stamp = [c \in DOMAIN db |-> 0]
    /\ clock = 0
    /\ gemini_model = FALSE
    /\ probe = WriteProbe(0, None)

WriteCall == probe.kind = "probe" /\ probe.op = "writes" /\ probe.n < MaxStoreOps

\* memory_manager.save(session_id, key, value)
WriteSave ==
    /\ WriteCall
    /\ \E cell \in StoreCells, value \in StoreValues, outcome \in WriteOutcomes :
         /\ db' = SaveRows(db, cell[1], cell[2], value, outcome)
         /\ in_memory_cache' = SaveMirror(in_memory_cache, cell[1], cell[2], value, outcome)
         /\ stamp' = SaveStamp(stamp, cell[1], cell[2], outcome # "execute_raises", clock)
         /\ probe' = WriteProbe(probe.n + 1,
                         [kind |-> "save", cell |-> cell, value |-> value,
                          outcome |-> outcome])
    /\ UNCHANGED clock
    /\ StoreFrame

\* memory_manager.get(session_id, key)
WriteGet ==
    /\ WriteCall
    /\ \E cell \in StoreCells, read_ok \in BOOLEAN :
         /\ in_memory_cache' = GetCache(db, in_memory_cache, cell[1], cell[2], read_ok)
         /\ probe' = WriteProbe(probe.n + 1,
                         [kind |-> "get", cell |-> cell,
                          returned |-> GetValue(db, in_memory_cache, cell[1], cell[2], read_ok)])
    /\ UNCHANGED <<db, stamp, clock>>
    /\ StoreFrame

WriteNext == WriteSave \/ WriteGet

WriteSpec == WriteInit /\ [][WriteNext]_vars

\* this step is a save call
WriteSaveStep ==
    /\ probe.kind = "probe" /\ probe.op = "writes"
    /\ probe'.n = probe.n + 1
    /\ probe'.last.kind = "save"

\* the entries of f other than k are those of g
SameElsewhere(f, g, k) ==
    /\ DOMAIN f \ {k} = DOMAIN g \ {k}
    /\ \A x \in DOMAIN f \ {k} : f[x] = g[x]

\* C34: a save whose write to the database fails leaves the rows and the
\* mirror as they were for every (session, key), so that a following get
\* returns the previous value; a save to (s, k) changes no other entry.
C34_WriteFailureContained ==
    [][WriteSaveStep =>
         /\ probe'.last.outcome # "ok" =>
               /\ db' = db
               /\ in_memory_cache' = in_memory_cache
         /\ SameElsewhere(db', db, probe'.last.cell)
         /\ SameElsewhere(in_memory_cache', in_memory_cache, probe'.last.cell)]_vars

----------------------------------------------------------------------------
(* Two MemoryManager instances on one database file *)

Instances == {1, 2}

\* texts that json.loads rejects: get returns them as they were saved
SharedValues == {Str(3, NotJson), Str(4, NotJson)}

SharedCells == {<<"s1", <<"k">>>>, <<"s1", <<"j">>>>}

\* the probe of the two stores: the calls made so far, the mirror of the
\* second instance (in_memory_cache is the mirror of the first), the last
\* successful save of each (session, key) with its instance, and the last call
SharedProbe(n, mirror, written, last) ==
    [kind |-> "probe", op |-> "stores", n |-> n, mirror |-> mirror,
     written |-> written, last |-> last]

SharedInit ==
    /\ ProgramIdle
    /\ gemini_model = FALSE
    /\ probe = SharedProbe(0, <<>>, <<>>, None)

SharedCall == probe.kind = "probe" /\ probe.op = "stores" /\ probe.n < MaxStoreOps

\* self.in_memory_cache of an instance
MirrorOf(i) == IF i = 1 THEN in_memory_cache ELSE probe.mirror

\* instance i: memory_manager.save(session_id, key, value)
SharedSave ==
    /\ SharedCall
    /\ \E i \in Instances, cell \in SharedCells, value \in SharedValues, write_ok \in BOOLEAN :
         LET mirror == SaveCache(MirrorOf(i), cell[1], cell[2], value, write_ok)
         IN /\ db' = SaveDb(db, cell[1], cell[2], value, write_ok)
            /\ stamp' = SaveStamp(stamp, cell[1], cell[2], write_ok, clock)
            /\ in_memory_cache' = IF i = 1 THEN mirror ELSE in_memory_cache
            /\ probe' = SharedProbe(probe.n + 1,
                            IF i = 2 THEN mirror ELSE probe.mirror,
                            IF write_ok
                            THEN Upsert(probe.written, cell, [value |-> value, by |-> i])
                            ELSE probe.written,
                            [kind |-> "save", by |-> i, cell |-> cell, ok |-> write_ok])
    /\ UNCHANGED clock
    /\ StoreFrame

\* instance i: memory_manager.get(session_id, key)
SharedGet ==
    /\ SharedCall
    /\ \E i \in Instances, cell \in SharedCells, read_ok \in BOOLEAN :
         LET mirror == GetCache(db, MirrorOf(i), cell[1], cell[2], read_ok)
         IN /\ in_memory_cache' = IF i = 1 THEN mirror ELSE in_memory_cache
            /\ probe' = SharedProbe(probe.n + 1,
                            IF i = 2 THEN mirror ELSE probe.mirror,
                            probe.written,
                            [kind |-> "get", by |-> i, cell |-> cell,
                             returned |-> GetValue(db, MirrorOf(i), cell[1], cell[2], read_ok),
                             db_read |-> GetReadsDb(MirrorOf(i), cell[1], cell[2]),
                             read_ok |-> read_ok])
    /\ UNCHANGED <<db, stamp, clock>>
    /\ StoreFrame

SharedNext == SharedSave \/ SharedGet

SharedSpec == SharedInit /\ [][SharedNext]_vars

SharedProbed == probe.kind = "probe" /\ probe.op = "stores"

\* C32: with two instances on one database file, a get through one instance
\* returns the value of the last save to the (session, key), also when that
\* save was made through the other instance and the getting instance has
\* read or written the key before. (Gets whose read of the table fails are
\* left out.)
C32_LastWriteAcrossInstances ==
    (SharedProbed /\ probe.last.kind = "get" /\ probe.last.cell \in DOMAIN probe.written
       /\ (probe.last.db_read => probe.last.read_ok)) =>
        probe.last.returned = probe.written[probe.last.cell].value

----------------------------------------------------------------------------
(* The cache key of run_task, lines 67 and 91 *)

\* task texts as the caller passes them, with characters that sanitize_input
\* drops and with the separator of the key
KeyTasks == {<<"x">>, <<"x", ";">>, <<"x", ":", "y">>, <<"A", "n", "a", "l", "y", "z", "e">>}

KeyUrls == {<<"a">>, <<"y", ":", "a">>}

\* memory_key of a call: task = sanitize_input(task), then f"task:{task}:{url}"
memory_key(task, url) == TaskKey(sanitize_input(task), url)

KeyInit ==
    /\ ProgramIdle
    /\ gemini_model = FALSE
    /\ \E t1 \in KeyTasks, t2 \in KeyTasks, u1 \in KeyUrls, u2 \in KeyUrls :
         probe = [kind |-> "probe", op |-> "memory_key", at |-> "called",
                  first |-> [task |-> t1, url |-> u1],
                  second |-> [task |-> t2, url |-> u2]]

\* the keys two run_task calls of one session compute for a resource each
CallMemoryKey ==
    /\ probe.kind = "probe"
    /\ probe.op = "memory_key"
    /\ probe.at = "called"
    /\ probe' = [kind |-> "probe", op |-> "memory_key", at |-> "returned",
                 first |-> probe.first, second |-> probe.second,
                 key1 |-> memory_key(probe.first.task, probe.first.url),
                 key2 |-> memory_key(probe.second.task, probe.second.url)]
    /\ UNCHANGED <<gemini_model, browser_initialized, browser, session_context, db,
                   in_memory_cache, call, io, work, stamp, clock>>

KeyNext == CallMemoryKey

KeySpec == KeyInit /\ [][KeyNext]_vars

\* C35: within a session two different (task, resource) pairs never get the
\* same store key, so the value looked up for a pair was saved for that pair.
C35_KeysIdentifyTaskAndResource ==
    (probe.kind = "probe" /\ probe.op = "memory_key" /\ probe.at = "returned"
       /\ probe.first # probe.second) =>
        probe.key1 # probe.key2

====
